---- MODULE Spec2Model ----
(***************************************************************************)
(* Model of src/lib/customer.js: the Customer resource client of the       *)
(* Fastbill API wrapper.  Each method (get, create, update, remove) runs a  *)
(* Promise executor that validates its arguments, builds a request         *)
(* descriptor and hands it with an onResult callback to the transport      *)
(* ($request of the FastbillAPI base class).  The transport later invokes  *)
(* the callback, which settles the promise.                                *)
(***************************************************************************)
EXTENDS Integers, Sequences, FiniteSets

VARIABLES heap, call, promise, requests

vars == <<heap, call, promise, requests>>

(* Number of method invocations made on the one client. *)
MaxCalls == 2

CallIds == 1..MaxCalls

(***************************************************************************)
(* JavaScript values.  A value is a record of its runtime kind and its     *)
(* content; an object owned by the caller is a reference (str is its       *)
(* address in heap), an object literal created by the method itself is     *)
(* carried by value in props (nothing else can reach it).                  *)
(***************************************************************************)
Fields == {"CUSTOMER_ID", "FIRST_NAME", "filter", "limit", "offset"}

Prim(k, n, s) == [kind |-> k, num |-> n, str |-> s]

UndefinedPrim == Prim("undefined", 0, "")

NoProps == [f \in Fields |-> UndefinedPrim]

Val(k, n, s) == [kind |-> k, num |-> n, str |-> s, props |-> NoProps, items |-> <<>>]

Undefined == Val("undefined", 0, "")

Null == Val("null", 0, "")

Num(n) == Val("number", n, "")

Str(s) == Val("string", 0, s)

Bool(b) == Val("boolean", IF b THEN 1 ELSE 0, "")

Arr(xs) == [kind |-> "array", num |-> 0, str |-> "", props |-> NoProps, items |-> xs]

Ref(a) == Val("object", 0, a)

ErrorObject(name) == Val("error", 0, name)

(* An object literal {...} evaluated by the method: a new, unshared mapping. *)
Literal(p) == [kind |-> "object", num |-> 0, str |-> "", props |-> p, items |-> <<>>]

ToPrim(v) == Prim(v.kind, v.num, v.str)

FromPrim(p) == Val(p.kind, p.num, p.str)

IsRef(v) == v.kind = "object" /\ v.str # ""

(* ToBoolean: undefined, null, 0, "" and false are falsy; objects, arrays and
   error objects are truthy. *)
Truthy(v) ==
    CASE v.kind = "undefined" -> FALSE
      [] v.kind = "null" -> FALSE
      [] v.kind = "number" -> v.num # 0
      [] v.kind = "string" -> v.str # ""
      [] v.kind = "boolean" -> v.num # 0
      [] OTHER -> TRUE

(* a || b *)
Or(a, b) == IF Truthy(a) THEN a ELSE b

(* The properties of an object value as they are now. *)
Props(v, h) == IF IsRef(v) THEN h[v.str] ELSE v.props

(* obj.field *)
GetField(v, f, h) == FromPrim(Props(v, h)[f])

(* typeOf(value).mustBe(kind): TRUE when the check passes, FALSE when it throws. *)
TypeOf(v) == v.kind

MustBe(v, expectedKind) == TypeOf(v) = expectedKind

(***************************************************************************)
(* Errors (utils/errors) and the promise each method returns.              *)
(***************************************************************************)
NoError == [name |-> "", message |-> "", detail |-> Undefined]

FastbillTypeError == [name |-> "FastbillTypeError", message |-> "", detail |-> Undefined]

FastbillInvalidRequestError(message, detail) ==
    [name |-> "FastbillInvalidRequestError", message |-> message, detail |-> detail]

NoPromise ==
    [state |-> "none", value |-> Undefined, error |-> NoError,
     resolveCalls |-> 0, rejectCalls |-> 0]

(* new Promise(executor): pending until resolve or reject is called. *)
NewPromise == [NoPromise EXCEPT !.state = "pending"]

(* resolve(v): settles a pending promise; a later call changes nothing. *)
Resolve(p, v) ==
    IF p.state = "pending"
    THEN [p EXCEPT !.state = "fulfilled", !.value = v, !.resolveCalls = @ + 1]
    ELSE [p EXCEPT !.resolveCalls = @ + 1]

(* reject(e), also what the Promise constructor does when the executor throws. *)
Reject(p, e) ==
    IF p.state = "pending"
    THEN [p EXCEPT !.state = "rejected", !.error = e, !.rejectCalls = @ + 1]
    ELSE [p EXCEPT !.rejectCalls = @ + 1]

(***************************************************************************)
(* The transport: this.$request(descriptor, callback) of FastbillAPI.      *)
(* It keeps the descriptor (data by reference) and later invokes the       *)
(* callback once, with an error or with a result set.                      *)
(***************************************************************************)
scope == "customer."

(* this.$scope + operation *)
Service(operation) == <<scope, operation>>

Descriptor(service, data, filter, limit, offset) ==
    [service |-> service, data |-> data, filter |-> filter,
     limit |-> limit, offset |-> offset]

UndefinedResultSet == [defined |-> FALSE, CUSTOMERS |-> Undefined, CUSTOMER_ID |-> Undefined]

ResultSet(customers, id) == [defined |-> TRUE, CUSTOMERS |-> customers, CUSTOMER_ID |-> id]

(* The request as the transport records it; issued is the content of data at
   the moment of the call. *)
NewRequest(c, d, h) ==
    [call |-> c, descriptor |-> d, issued |-> Props(d.data, h),
     delivered |-> FALSE, err |-> Undefined, resultset |-> UndefinedResultSet]

(* this.$request(descriptor, onResult) *)
Request(c, d, h) == Append(requests, NewRequest(c, d, h))

(* The requests call c has issued. *)
RequestsOf(c) == {i \in 1..Len(requests) : requests[i].call = c}

(* The transport invokes the callback of call c with (err, resultset). *)
TransportInvokes(c, err, resultset) ==
    \E i \in 1..Len(requests) :
        /\ requests[i].call = c
        /\ ~requests[i].delivered
        /\ requests' = [requests EXCEPT ![i].delivered = TRUE,
                                        ![i].err = err,
                                        ![i].resultset = resultset]

(***************************************************************************)
(* Inputs.                                                                 *)
(***************************************************************************)
Addresses == {"mod", "opts"}

InitialHeap ==
    [a \in Addresses |->
        IF a = "mod"
        THEN [NoProps EXCEPT !["FIRST_NAME"] = Prim("string", 0, "A")]
        ELSE [NoProps EXCEPT !["filter"] = Prim("string", 0, "f"),
                             !["limit"] = Prim("number", 10, ""),
                             !["offset"] = Prim("number", 2, "")]]

GetArgs == {Undefined, Null, Num(0), Str(""), Bool(FALSE), Arr(<<>>), Ref("opts")}

CreateArgs == {Undefined, Null, Num(0), Str("x"), Ref("mod")}

IdArgs == {Num(5), Num(7), Str("5")}

ModificationArgs == {Ref("mod"), Arr(<<>>), Undefined}

RemoveArgs == IdArgs \cup {Undefined}

Errors == {ErrorObject("E1"), ErrorObject("E2")}

ResultSets ==
    {ResultSet(Arr(<<"a", "b">>), Num(42)), ResultSet(Arr(<<"b", "a">>), Undefined)}

CallbackArgs ==
    {<<e, UndefinedResultSet>> : e \in Errors} \cup {<<Null, rs>> : rs \in ResultSets}

NoCall == [op |-> "none", args |-> <<Undefined, Undefined>>]

Invocation(op, a, b) == [op |-> op, args |-> <<a, b>>]

(* Calls are numbered in the order they are made. *)
NextCall(c) ==
    /\ call[c].op = "none"
    /\ \A d \in CallIds : d < c => call[d].op # "none"

Init ==
    /\ heap = InitialHeap
    /\ call = [c \in CallIds |-> NoCall]
    /\ promise = [c \in CallIds |-> NoPromise]
    /\ requests = <<>>

(***************************************************************************)
(* Customer#get                                                            *)
(***************************************************************************)
Get(c, options) ==
    /\ NextCall(c)
    /\ call' = [call EXCEPT ![c] = Invocation("get", options, Undefined)]
    /\ LET opts == Or(options, Literal(NoProps)) IN
       IF MustBe(opts, "object")
       THEN /\ requests' = Request(c, Descriptor(Service("get"), Undefined,
                                                 GetField(opts, "filter", heap),
                                                 GetField(opts, "limit", heap),
                                                 GetField(opts, "offset", heap)), heap)
            /\ promise' = [promise EXCEPT ![c] = NewPromise]
       ELSE /\ requests' = requests
            /\ promise' = [promise EXCEPT ![c] = Reject(NewPromise, FastbillTypeError)]
    /\ UNCHANGED heap

(* Mutant: the success branch reads the wrong payload key. *)
GetOnResultWrongKey(c, err, resultset) ==
    /\ call[c].op = "get"
    /\ TransportInvokes(c, err, resultset)
    /\ promise' = [promise EXCEPT ![c] =
          IF Truthy(err)
          THEN Reject(@, FastbillInvalidRequestError("Invalid Request to Fastbill.", err))
          ELSE IF resultset.defined THEN Resolve(@, resultset.CUSTOMER_ID) ELSE @]
    /\ UNCHANGED <<heap, call>>

GetOnResult(c, err, resultset) ==
    /\ call[c].op = "get"
    /\ TransportInvokes(c, err, resultset)
    /\ promise' = [promise EXCEPT ![c] =
          IF Truthy(err)
          THEN Reject(@, FastbillInvalidRequestError("Invalid Request to Fastbill.", err))
          ELSE IF resultset.defined THEN Resolve(@, resultset.CUSTOMERS) ELSE @]
    /\ UNCHANGED <<heap, call>>

(***************************************************************************)
(* Customer#create                                                         *)
(***************************************************************************)
Create(c, customer) ==
    /\ NextCall(c)
    /\ call' = [call EXCEPT ![c] = Invocation("create", customer, Undefined)]
    /\ LET cust == Or(customer, Literal(NoProps)) IN
       IF MustBe(cust, "object")
       THEN /\ requests' = Request(c, Descriptor(Service("create"), cust,
                                                 Undefined, Undefined, Undefined), heap)
            /\ promise' = [promise EXCEPT ![c] = NewPromise]
       ELSE /\ requests' = requests
            /\ promise' = [promise EXCEPT ![c] = Reject(NewPromise, FastbillTypeError)]
    /\ UNCHANGED heap

(* Mutant: the transport error is not passed on as detail. *)
CreateOnResultDropsDetail(c, err, resultset) ==
    /\ call[c].op = "create"
    /\ TransportInvokes(c, err, resultset)
    /\ promise' = [promise EXCEPT ![c] =
          IF Truthy(err)
          THEN Reject(@, FastbillInvalidRequestError("Invalid Request to Fastbill.", Undefined))
          ELSE IF resultset.defined THEN Resolve(@, resultset.CUSTOMER_ID) ELSE @]
    /\ UNCHANGED <<heap, call>>

CreateOnResult(c, err, resultset) ==
    /\ call[c].op = "create"
    /\ TransportInvokes(c, err, resultset)
    /\ promise' = [promise EXCEPT ![c] =
          IF Truthy(err)
          THEN Reject(@, FastbillInvalidRequestError("Invalid Request to Fastbill.", err))
          ELSE IF resultset.defined THEN Resolve(@, resultset.CUSTOMER_ID) ELSE @]
    /\ UNCHANGED <<heap, call>>

(***************************************************************************)
(* Customer#update                                                         *)
(***************************************************************************)
(* modification.CUSTOMER_ID = id, on the caller's own mapping. *)
SetCustomerId(h, modification, id) ==
    [h EXCEPT ![modification.str]["CUSTOMER_ID"] = ToPrim(id)]

(* Mutant: the assignment is made before the type check of id. *)
UpdateAssignsFirst(c, id, modification) ==
    /\ NextCall(c)
    /\ call' = [call EXCEPT ![c] = Invocation("update", id, modification)]
    /\ heap' = IF MustBe(modification, "object")
               THEN SetCustomerId(heap, modification, id)
               ELSE heap
    /\ IF MustBe(id, "number") /\ MustBe(modification, "object")
       THEN /\ requests' = Request(c, Descriptor(Service("update"), modification,
                                                 Undefined, Undefined, Undefined), heap')
            /\ promise' = [promise EXCEPT ![c] = NewPromise]
       ELSE /\ requests' = requests
            /\ promise' = [promise EXCEPT ![c] = Reject(NewPromise, FastbillTypeError)]

(* Mutant: the modification is copied and the copy is sent. *)
UpdateCopies(c, id, modification) ==
    /\ NextCall(c)
    /\ call' = [call EXCEPT ![c] = Invocation("update", id, modification)]
    /\ heap' = heap
    /\ IF MustBe(id, "number") /\ MustBe(modification, "object")
       THEN /\ requests' = Request(c, Descriptor(Service("update"),
                                       Literal([Props(modification, heap)
                                                   EXCEPT !["CUSTOMER_ID"] = ToPrim(id)]),
                                       Undefined, Undefined, Undefined), heap)
            /\ promise' = [promise EXCEPT ![c] = NewPromise]
       ELSE /\ requests' = requests
            /\ promise' = [promise EXCEPT ![c] = Reject(NewPromise, FastbillTypeError)]

Update(c, id, modification) ==
    /\ NextCall(c)
    /\ call' = [call EXCEPT ![c] = Invocation("update", id, modification)]
    /\ IF MustBe(id, "number") /\ MustBe(modification, "object")
       THEN /\ heap' = SetCustomerId(heap, modification, id)
            /\ requests' = Request(c, Descriptor(Service("update"), modification,
                                                 Undefined, Undefined, Undefined), heap')
            /\ promise' = [promise EXCEPT ![c] = NewPromise]
       ELSE /\ heap' = heap
            /\ requests' = requests
            /\ promise' = [promise EXCEPT ![c] = Reject(NewPromise, FastbillTypeError)]

(* Mutant: the error branch does not return, so resolve follows reject. *)
UpdateOnResultNoReturn(c, err, resultset) ==
    /\ call[c].op = "update"
    /\ TransportInvokes(c, err, resultset)
    /\ promise' = [promise EXCEPT ![c] =
          IF Truthy(err)
          THEN Resolve(Reject(@, FastbillInvalidRequestError("Invalid Request to Fastbill.",
                                                              err)), Bool(TRUE))
          ELSE Resolve(@, Bool(TRUE))]
    /\ UNCHANGED <<heap, call>>

UpdateOnResult(c, err, resultset) ==
    /\ call[c].op = "update"
    /\ TransportInvokes(c, err, resultset)
    /\ promise' = [promise EXCEPT ![c] =
          IF Truthy(err)
          THEN Reject(@, FastbillInvalidRequestError("Invalid Request to Fastbill.", err))
          ELSE Resolve(@, Bool(TRUE))]
    /\ UNCHANGED <<heap, call>>

(***************************************************************************)
(* Customer#remove                                                         *)
(***************************************************************************)
(* Mutant: the service is named after the method. *)
RemoveWrongService(c, id) ==
    /\ NextCall(c)
    /\ call' = [call EXCEPT ![c] = Invocation("remove", id, Undefined)]
    /\ IF MustBe(id, "number")
       THEN /\ requests' = Request(c, Descriptor(Service("remove"),
                                       Literal([NoProps EXCEPT !["CUSTOMER_ID"] = ToPrim(id)]),
                                       Undefined, Undefined, Undefined), heap)
            /\ promise' = [promise EXCEPT ![c] = NewPromise]
       ELSE /\ requests' = requests
            /\ promise' = [promise EXCEPT ![c] = Reject(NewPromise, FastbillTypeError)]
    /\ UNCHANGED heap

Remove(c, id) ==
    /\ NextCall(c)
    /\ call' = [call EXCEPT ![c] = Invocation("remove", id, Undefined)]
    /\ IF MustBe(id, "number")
       THEN /\ requests' = Request(c, Descriptor(Service("delete"),
                                       Literal([NoProps EXCEPT !["CUSTOMER_ID"] = ToPrim(id)]),
                                       Undefined, Undefined, Undefined), heap)
            /\ promise' = [promise EXCEPT ![c] = NewPromise]
       ELSE /\ requests' = requests
            /\ promise' = [promise EXCEPT ![c] = Reject(NewPromise, FastbillTypeError)]
    /\ UNCHANGED heap

(* Mutant: a transport error is answered by a second attempt. *)
RemoveOnResultRetries(c, err, resultset) ==
    /\ call[c].op = "remove"
    /\ \E i \in 1..Len(requests) :
          /\ requests[i].call = c
          /\ ~requests[i].delivered
          /\ LET answered == [requests EXCEPT ![i].delivered = TRUE,
                                              ![i].err = err,
                                              ![i].resultset = resultset]
             IN requests' = IF Truthy(err) /\ Cardinality(RequestsOf(c)) = 1
                            THEN Append(answered,
                                        NewRequest(c, requests[i].descriptor, heap))
                            ELSE answered
    /\ promise' = [promise EXCEPT ![c] =
          IF Truthy(err)
          THEN IF Cardinality(RequestsOf(c)) = 1
               THEN @
               ELSE Reject(@, FastbillInvalidRequestError("Invalid Request to Fastbill.", err))
          ELSE Resolve(@, Bool(TRUE))]
    /\ UNCHANGED <<heap, call>>

RemoveOnResult(c, err, resultset) ==
    /\ call[c].op = "remove"
    /\ TransportInvokes(c, err, resultset)
    /\ promise' = [promise EXCEPT ![c] =
          IF Truthy(err)
          THEN Reject(@, FastbillInvalidRequestError("Invalid Request to Fastbill.", err))
          ELSE Resolve(@, Bool(TRUE))]
    /\ UNCHANGED <<heap, call>>

Next ==
    \E c \in CallIds :
        \/ \E options \in GetArgs : Get(c, options)
        \/ \E customer \in CreateArgs : Create(c, customer)
        \/ \E id \in IdArgs, modification \in ModificationArgs : Update(c, id, modification)
        \/ \E id \in RemoveArgs : Remove(c, id)
        \/ \E cb \in CallbackArgs : GetOnResult(c, cb[1], cb[2])
        \/ \E cb \in CallbackArgs : CreateOnResult(c, cb[1], cb[2])
        \/ \E cb \in CallbackArgs : UpdateOnResult(c, cb[1], cb[2])
        \/ \E cb \in CallbackArgs : RemoveOnResult(c, cb[1], cb[2])

Spec == Init /\ [][Next]_vars

(***************************************************************************)
(* Properties.                                                             *)
(***************************************************************************)
Invoked(c) == call[c].op # "none"

Settled(c) == promise[c].state \in {"fulfilled", "rejected"}

SettleCalls(c) == promise[c].resolveCalls + promise[c].rejectCalls

(* The arguments of an invocation satisfy the type checks of its method. *)
ArgsPass(inv) ==
    CASE inv.op = "get" -> Truthy(inv.args[1]) => inv.args[1].kind = "object"
      [] inv.op = "create" -> Truthy(inv.args[1]) => inv.args[1].kind = "object"
      [] inv.op = "update" -> inv.args[1].kind = "number" /\ inv.args[2].kind = "object"
      [] inv.op = "remove" -> inv.args[1].kind = "number"
      [] OTHER -> FALSE

(* The content of the data mapping of request i as the transport sees it now. *)
Held(i) == Props(requests[i].descriptor.data, heap)

(* C1: every invocation has exactly one terminal outcome: neither resolve nor
   reject is called while the request is outstanding, and once validation has
   failed or the transport has invoked the callback, exactly one of resolve
   and reject has been called, exactly once, and the promise is settled
   accordingly. *)
C1_SingleSettlement ==
    \A c \in CallIds :
        /\ SettleCalls(c) <= 1
        /\ (promise[c].state = "fulfilled") <=> (promise[c].resolveCalls = 1)
        /\ (promise[c].state = "rejected") <=> (promise[c].rejectCalls = 1)
        /\ Invoked(c) /\ (\A i \in RequestsOf(c) : requests[i].delivered)
              => SettleCalls(c) = 1 /\ Settled(c)
        /\ Invoked(c) /\ (\E i \in RequestsOf(c) : ~requests[i].delivered)
              => SettleCalls(c) = 0 /\ promise[c].state = "pending"

C1_Witness ==
    /\ call[1].op = "update" /\ RequestsOf(1) = {} /\ promise[1].state = "rejected"
    /\ call[2].op = "get" /\ promise[2].state = "fulfilled"

(* C2: when the transport invokes the callback with (someError, undefined),
   the promise is rejected with a FastbillInvalidRequestError whose detail is
   someError and whose message is the fixed text, and resolve is never called. *)
C2_TransportErrorRejects ==
    \A i \in 1..Len(requests) :
        requests[i].delivered /\ requests[i].err \in Errors =>
            LET p == promise[requests[i].call] IN
            /\ p.state = "rejected"
            /\ p.resolveCalls = 0
            /\ p.error.name = "FastbillInvalidRequestError"
            /\ p.error.message = "Invalid Request to Fastbill."
            /\ p.error.detail = requests[i].err

C2_Witness ==
    /\ \E i \in 1..Len(requests) :
          /\ call[requests[i].call].op = "remove"
          /\ requests[i].delivered /\ requests[i].err = ErrorObject("E2")
    /\ \E i \in 1..Len(requests) :
          /\ call[requests[i].call].op = "get"
          /\ requests[i].delivered /\ requests[i].err = ErrorObject("E1")

(* C3: every non-mapping options value passed to get, the falsy ones (null, 0,
   "", false) included, makes the call fail with a FastbillTypeError without
   any request reaching the transport. *)
C3_GetRejectsNonMapping ==
    \A c \in CallIds :
        call[c].op = "get" /\ call[c].args[1].kind \notin {"object", "undefined"} =>
            /\ promise[c].state = "rejected"
            /\ promise[c].error.name = "FastbillTypeError"
            /\ RequestsOf(c) = {}

(* C4: every non-mapping entity passed to create, other than an omitted one,
   makes the call fail with a FastbillTypeError without any request reaching
   the transport. *)
C4_CreateRejectsNonMapping ==
    \A c \in CallIds :
        call[c].op = "create" /\ call[c].args[1].kind \notin {"object", "undefined"} =>
            /\ promise[c].state = "rejected"
            /\ promise[c].error.name = "FastbillTypeError"
            /\ RequestsOf(c) = {}

(* An update or remove invocation whose id is not a number, or an update whose
   modification is not a mapping. *)
BadIdOrModification(inv) ==
    /\ inv.op \in {"update", "remove"}
    /\ IF inv.op = "update"
       THEN inv.args[1].kind # "number" \/ inv.args[2].kind # "object"
       ELSE inv.args[1].kind # "number"

(* C5: an update or remove with a non-number id, or an update with a
   non-mapping modification, fails with a FastbillTypeError, no request of it
   ever reaches the transport, and the step of the call leaves every caller
   mapping as it was (no CUSTOMER_ID assignment). *)
C5_BadIdOrModificationFails ==
    /\ [](\A c \in CallIds :
            BadIdOrModification(call[c]) =>
                /\ promise[c].state = "rejected"
                /\ promise[c].error.name = "FastbillTypeError"
                /\ RequestsOf(c) = {})
    /\ [][\A c \in CallIds :
            ~Invoked(c) /\ BadIdOrModification(call'[c]) =>
                heap' = heap /\ requests' = requests]_vars

C5_Witness ==
    /\ call[1] = Invocation("update", Str("5"), Ref("mod"))
    /\ call[2] = Invocation("remove", Undefined, Undefined)
    /\ promise[1].state = "rejected" /\ promise[2].state = "rejected"
    /\ heap = InitialHeap

(* C6: update(id, modification) with a number id and a mapping sends one
   request, service customer.update, whose data is the caller's own mapping;
   the call sets CUSTOMER_ID of that mapping to id, overwriting an earlier
   value, and leaves its other fields, so that the data sent has every field
   of modification plus CUSTOMER_ID = id. *)
C6_UpdateSendsMutatedModification ==
    [][\A c \in CallIds :
        /\ ~Invoked(c)
        /\ call'[c].op = "update"
        /\ call'[c].args[1].kind = "number"
        /\ call'[c].args[2].kind = "object"
        => LET id == call'[c].args[1]
               m == call'[c].args[2]
               r == requests'[Len(requests')]
           IN /\ Len(requests') = Len(requests) + 1
              /\ SubSeq(requests', 1, Len(requests)) = requests
              /\ r.call = c
              /\ r.descriptor.service = <<"customer.", "update">>
              /\ r.descriptor.data = m
              /\ heap'[m.str]["CUSTOMER_ID"] = ToPrim(id)
              /\ \A f \in Fields \ {"CUSTOMER_ID"} : heap'[m.str][f] = heap[m.str][f]
              /\ \A a \in Addresses \ {m.str} : heap'[a] = heap[a]
              /\ r.issued = heap'[m.str]]_vars

C6_Witness ==
    /\ call[1] = Invocation("update", Num(5), Ref("mod"))
    /\ call[2] = Invocation("update", Num(7), Ref("mod"))
    /\ heap["mod"]["CUSTOMER_ID"] = Prim("number", 7, "")
    /\ heap["mod"]["FIRST_NAME"] = Prim("string", 0, "A")
    /\ Len(requests) = 2

(* C7: remove(id) with a number id has sent one request whose service is
   customer.delete, whose data is a new mapping holding CUSTOMER_ID = id and
   nothing else, and which has no filter, limit or offset. *)
C7_RemoveDescriptor ==
    \A c \in CallIds :
        call[c].op = "remove" /\ call[c].args[1].kind = "number" =>
            /\ Cardinality(RequestsOf(c)) = 1
            /\ \A i \in RequestsOf(c) :
                  LET d == requests[i].descriptor IN
                  /\ d.service = <<"customer.", "delete">>
                  /\ d.data.kind = "object"
                  /\ ~IsRef(d.data)
                  /\ Held(i) = [NoProps EXCEPT !["CUSTOMER_ID"] = ToPrim(call[c].args[1])]
                  /\ d.filter = Undefined /\ d.limit = Undefined /\ d.offset = Undefined

C7_Witness ==
    /\ call[1] = Invocation("remove", Num(7), Undefined)
    /\ \E i \in RequestsOf(1) : Held(i)["CUSTOMER_ID"] = Prim("number", 7, "")

(* C8: when the transport invokes the callback with (null, resultSet), the
   promise is fulfilled and reject is never called: get yields
   resultSet.CUSTOMERS as received, create yields resultSet.CUSTOMER_ID,
   update and remove yield true. *)
C8_SuccessValue ==
    \A i \in 1..Len(requests) :
        requests[i].delivered /\ requests[i].err = Null /\ requests[i].resultset.defined =>
            LET c == requests[i].call
                rs == requests[i].resultset
            IN /\ promise[c].state = "fulfilled"
               /\ promise[c].rejectCalls = 0
               /\ promise[c].value =
                     CASE call[c].op = "get" -> rs.CUSTOMERS
                       [] call[c].op = "create" -> rs.CUSTOMER_ID
                       [] OTHER -> Bool(TRUE)

C8_Witness ==
    /\ call[1].op = "get" /\ promise[1].value = Arr(<<"b", "a">>)
    /\ call[2].op = "create" /\ promise[2].value = Num(42)

(* C9: calls do not interfere: the data of every request the transport still
   holds is what the call that issued it put there, and an update request
   carries the id of its own call. *)
C9_NoInterference ==
    \A i \in 1..Len(requests) :
        ~requests[i].delivered =>
            /\ Held(i) = requests[i].issued
            /\ call[requests[i].call].op = "update" =>
                  Held(i)["CUSTOMER_ID"] = ToPrim(call[requests[i].call].args[1])

(* C10: an invocation whose arguments pass validation has issued exactly one
   request, also after a transport error, and its promise is settled only
   once that request has been issued and answered; an invocation whose
   arguments fail validation has issued none. *)
C10_OneRequestPerValidCall ==
    \A c \in CallIds :
        Invoked(c) =>
            IF ArgsPass(call[c])
            THEN /\ Cardinality(RequestsOf(c)) = 1
                 /\ Settled(c) => \A i \in RequestsOf(c) : requests[i].delivered
            ELSE RequestsOf(c) = {}

C10_Witness ==
    /\ call[1].op = "create" /\ ArgsPass(call[1])
    /\ \E i \in RequestsOf(1) : requests[i].delivered /\ requests[i].err \in Errors
    /\ call[2].op = "remove" /\ ~ArgsPass(call[2]) /\ Settled(2)

====
